---- MODULE Spec2Model ----
(***************************************************************************)
(* A model of pyro.contrib.cevae (src/pyro/contrib/cevae/__init__.py):     *)
(* the CEVAE constructor, CEVAE.fit, TraceCausalEffect_ELBO, CEVAE.ite and *)
(* the twin-head distributions of Model and Guide.                         *)
(*                                                                         *)
(* Tensors are functions from index tuples to values, shapes are sequences *)
(* of naturals, log-densities are small integers, and the output of a      *)
(* neural network is the symbolic term <<net, input>>.                     *)
(***************************************************************************)
EXTENDS Integers, Sequences, FiniteSets, TLC

VARIABLES
    \* ---- CEVAE.__init__ ----
    ctor_args,        \* the four constructor arguments, by field name
    ctor_pc,          \* "new" | "built" | "raised"
    ctor_error,       \* the ValueError raised: [field, value], or None
    self_feature_dim, \* CEVAE.feature_dim, or None
    self_model,       \* CEVAE.model (a Model), or None
    self_guide,       \* CEVAE.guide (a Guide), or None
    \* ---- CEVAE.fit ----
    cevae_feature_dim,  \* self.feature_dim of the CEVAE that fit or ite is called on
    x_shape,          \* x.shape, t.shape, y.shape of the call
    t_shape,
    y_shape,
    num_epochs,       \* the num_epochs and batch_size arguments
    batch_size,
    fit_pc,           \* "call" | "dataset" | "optim" | "epoch" | "batch" | "return" | "done" | "raised"
    fit_error,        \* the exception that ended fit: [type, line], or None
    dataset_len,      \* len(dataset)
    loader_len,       \* len(dataloader)
    num_steps,        \* the local num_steps
    optim,            \* the ClippedAdam: [lrd_root, decays]: lrd = learning_rate_decay ** (1 / lrd_root)
    epoch,            \* the loop variable of line 329
    batch,            \* minibatches of the current epoch already consumed
    loss,             \* the local loss, as the numerator of a fraction over len(dataset)
    losses,           \* the list losses, each entry [num, den] for num / den
    step_calls,       \* every svi.step call made so far: [rows, size]
    step_log,         \* history: per epoch begun, the values svi.step returned
    \* ---- TraceCausalEffect_ELBO ----
    loss_pc,          \* "call" | "traced" | "particle" | "summed" | "reported" | "raised"
    obs_t,            \* whether t, y were passed (as data) to Model and Guide
    obs_y,
    q_lp,             \* the log-density each Guide site evaluates to, by site name
    p_lp,             \* the log-density each Model site evaluates to, by site name
    model_trace,      \* the Trace objects: site name -> site
    guide_trace,
    blocked_guide_trace,
    blocked_names,    \* the local blocked_names
    particle_loss,    \* the pair _differentiable_loss_particle returns
    particle_surrogate,
    diff_loss,        \* what differentiable_loss returns
    reported_loss,    \* what loss() returns
    \* ---- Model.y_dist, Guide.y_dist, Guide.z_dist ----
    dist_pc,          \* the set of the three functions already evaluated, or {"idle"}
    in_t,             \* the argument tensors, one entry per row
    in_z,
    in_x,
    in_y,
    model_y_dist,     \* Model.y_dist(in_t, in_z), or None
    guide_y_dist,     \* Guide.y_dist(in_t, in_x), or None
    guide_z_dist,     \* Guide.z_dist(in_y, in_t, in_x), or None
    \* ---- CEVAE.ite ----
    ite_pc,           \* "call" | "guide" | "replay0" | "replay1" | "done" | "raised"
    ite_x_shape,      \* x.shape of the call
    num_samples,      \* the num_samples argument
    guide_samples,    \* the values the Guide's sample statements returned, by site
    tr,               \* tr.trace: site name -> site
    replay0,          \* the sites of the Model in the replay under do(t=0)
    replay1,          \* the sites of the Model in the replay under do(t=1)
    ite_out           \* the tensor ite returns, one entry per row, or None

ctorVars == <<ctor_args, ctor_pc, ctor_error, self_feature_dim, self_model, self_guide>>

fitVars == <<cevae_feature_dim, x_shape, t_shape, y_shape, num_epochs, batch_size,
             fit_pc, fit_error, dataset_len, loader_len, num_steps, optim,
             epoch, batch, loss, losses, step_calls, step_log>>

lossVars == <<loss_pc, obs_t, obs_y, q_lp, p_lp, model_trace, guide_trace,
              blocked_guide_trace, blocked_names, particle_loss, particle_surrogate,
              diff_loss, reported_loss>>

distVars == <<dist_pc, in_t, in_z, in_x, in_y, model_y_dist, guide_y_dist, guide_z_dist>>

iteVars == <<ite_pc, ite_x_shape, num_samples, guide_samples, tr, replay0, replay1, ite_out>>

vars == <<ctorVars, fitVars, lossVars, distVars, iteVars>>

\* The variables each part of the program leaves alone.
exceptCtor == <<fitVars, lossVars, distVars, iteVars>>
exceptFit == <<ctorVars, lossVars, distVars, iteVars>>
exceptLoss == <<ctorVars, fitVars, distVars, iteVars>>
exceptDist == <<ctorVars, fitVars, lossVars, iteVars>>
exceptIte == <<ctorVars, fitVars, lossVars, distVars>>

None == [none |-> TRUE]

\* Largest dimension / layer count drawn for a configuration field.
MaxDim == 2

(***************************************************************************)
(* Python values handed to the constructor.  A value carries its Python    *)
(* type; bool is a subclass of int (True == 1, False == 0); a float holds  *)
(* an integral value here (2.0), a str holds no number.                    *)
(***************************************************************************)
PyInt(n)   == [type |-> "int",   val |-> n]
PyBool(b)  == [type |-> "bool",  val |-> IF b THEN 1 ELSE 0]
PyFloat(n) == [type |-> "float", val |-> n]
PyStr      == [type |-> "str",   val |-> 0]

ArgValues ==
    {PyInt(n) : n \in -1..MaxDim} \cup {PyBool(b) : b \in BOOLEAN}
        \cup {PyFloat(MaxDim), PyStr}

\* dict(feature_dim=..., latent_dim=..., hidden_dim=..., num_layers=...):
\* the insertion order of the dict, which config.items() follows.
ConfigFields == <<"feature_dim", "latent_dim", "hidden_dim", "num_layers">>

FieldNames == {ConfigFields[i] : i \in 1..Len(ConfigFields)}

\* isinstance(size, int)
IsInstanceInt(size) == size.type \in {"int", "bool"}

\* SizeOK with >= in place of >.
SizeOK_accepts_zero(size) == IsInstanceInt(size) /\ size.val >= 0

\* isinstance(size, int) and size > 0   (the "and" short-circuits)
SizeOK(size) == IsInstanceInt(size) /\ size.val > 0

\* The index of the first field, in config.items() order, that fails SizeOK;
\* 0 when the loop of lines 294-296 completes without raising.
FirstBad(config) ==
    IF \E i \in 1..Len(ConfigFields) : ~SizeOK(config[ConfigFields[i]])
    THEN CHOOSE i \in 1..Len(ConfigFields) :
            /\ ~SizeOK(config[ConfigFields[i]])
            /\ \A j \in 1..(i - 1) : SizeOK(config[ConfigFields[j]])
    ELSE 0

\* [v] * n
Repeat(v, n) == [i \in 1..n |-> v]

\* FullyConnected(sizes): one Linear(in, out) per adjacent pair of sizes.
FullyConnected(sizes) == [i \in 1..(Len(sizes) - 1) |-> <<sizes[i], sizes[i + 1]>>]

\* DiagNormalNet(sizes): FullyConnected(sizes[:-1] + [sizes[-1] * 2])
DiagNormalNet(sizes) ==
    [fc |-> FullyConnected(SubSeq(sizes, 1, Len(sizes) - 1) \o <<sizes[Len(sizes)] * 2>>)]

\* BernoulliNet(sizes): FullyConnected(sizes + [1])
BernoulliNet(sizes) == [fc |-> FullyConnected(sizes \o <<1>>)]

\* Model(config)
ModelInit(config) ==
    [latent_dim |-> config["latent_dim"],
     x_nn  |-> DiagNormalNet(<<config["latent_dim"]>>
                  \o Repeat(config["hidden_dim"], config["num_layers"])
                  \o <<config["feature_dim"]>>),
     y0_nn |-> BernoulliNet(<<config["latent_dim"]>>
                  \o Repeat(config["hidden_dim"], config["num_layers"])),
     y1_nn |-> BernoulliNet(<<config["latent_dim"]>>
                  \o Repeat(config["hidden_dim"], config["num_layers"])),
     t_nn  |-> BernoulliNet(<<config["latent_dim"]>>)]

\* Guide(config)
GuideInit(config) ==
    [latent_dim |-> config["latent_dim"],
     t_nn  |-> BernoulliNet(<<config["feature_dim"]>>),
     y_nn  |-> FullyConnected(<<config["feature_dim"]>>
                  \o Repeat(config["hidden_dim"], config["num_layers"])),
     y0_nn |-> BernoulliNet(<<config["hidden_dim"]>>),
     y1_nn |-> BernoulliNet(<<config["hidden_dim"]>>),
     z0_nn |-> DiagNormalNet(<<1 + config["feature_dim"]>>
                  \o Repeat(config["hidden_dim"], config["num_layers"])
                  \o <<config["latent_dim"]>>),
     z1_nn |-> DiagNormalNet(<<1 + config["feature_dim"]>>
                  \o Repeat(config["hidden_dim"], config["num_layers"])
                  \o <<config["latent_dim"]>>)]

\* The numbers of a validated configuration.
ConfigOf(args) == [f \in FieldNames |-> args[f].val]

\* The state of the parts of the program a specification does not run.
IdleCtor ==
    /\ ctor_args = [f \in FieldNames |-> PyInt(1)]
    /\ ctor_pc = "idle"
    /\ ctor_error = None
    /\ self_feature_dim = None
    /\ self_model = None
    /\ self_guide = None

IdleFit ==
    /\ cevae_feature_dim = 1
    /\ x_shape = <<>> /\ t_shape = <<>> /\ y_shape = <<>>
    /\ num_epochs = 0 /\ batch_size = 1
    /\ fit_pc = "idle"
    /\ fit_error = None
    /\ dataset_len = 0 /\ loader_len = 0 /\ num_steps = 0
    /\ optim = None
    /\ epoch = 0 /\ batch = 0 /\ loss = 0
    /\ losses = <<>>
    /\ step_calls = {}
    /\ step_log = <<>>

IdleLoss ==
    /\ loss_pc = "idle"
    /\ obs_t = FALSE /\ obs_y = FALSE
    /\ q_lp = <<>> /\ p_lp = <<>>
    /\ model_trace = <<>> /\ guide_trace = <<>> /\ blocked_guide_trace = <<>>
    /\ blocked_names = {}
    /\ particle_loss = None /\ particle_surrogate = None
    /\ diff_loss = None /\ reported_loss = None

IdleDist ==
    /\ dist_pc = {"idle"}
    /\ in_t = <<>> /\ in_z = <<>> /\ in_x = <<>> /\ in_y = <<>>
    /\ model_y_dist = None /\ guide_y_dist = None /\ guide_z_dist = None

IdleIte ==
    /\ ite_pc = "idle"
    /\ ite_x_shape = <<>>
    /\ num_samples = 1
    /\ guide_samples = <<>> /\ tr = <<>> /\ replay0 = <<>> /\ replay1 = <<>>
    /\ ite_out = None

InitCtor ==
    /\ IdleFit
    /\ IdleLoss
    /\ IdleDist
    /\ IdleIte
    /\ ctor_args \in [FieldNames -> ArgValues]
    /\ ctor_pc = "new"
    /\ ctor_error = None
    /\ self_feature_dim = None
    /\ self_model = None
    /\ self_guide = None

\* CEVAE.__init__(feature_dim, latent_dim, hidden_dim, num_layers)
CEVAE_init ==
    /\ ctor_pc = "new"
    /\ LET bad == FirstBad(ctor_args) IN
         IF bad # 0
         THEN \* raise ValueError("Expected {} > 0 but got {}".format(name, size))
              /\ ctor_pc' = "raised"
              /\ ctor_error' = [field |-> ConfigFields[bad],
                                value |-> ctor_args[ConfigFields[bad]]]
              /\ UNCHANGED <<self_feature_dim, self_model, self_guide>>
         ELSE /\ ctor_pc' = "built"
              /\ self_feature_dim' = ConfigOf(ctor_args)["feature_dim"]
              /\ self_model' = ModelInit(ConfigOf(ctor_args))
              /\ self_guide' = GuideInit(ConfigOf(ctor_args))
              /\ UNCHANGED ctor_error
    /\ UNCHANGED ctor_args
    /\ UNCHANGED exceptCtor

NextCtor == CEVAE_init

SpecCtor == InitCtor /\ [][NextCtor]_vars

\* A positive integer, as Python counts integers (bool is an int).
PositiveInteger(v) == v.type \in {"int", "bool"} /\ v.val >= 1

OffendingFields == {f \in FieldNames : ~PositiveInteger(ctor_args[f])}

\* The input width of the first layer, the output width of the last, of a net.
NetIn(fc) == fc[1][1]
NetOut(fc) == fc[Len(fc)][2]

\* C1: the constructor raises a validation error naming an offending field
\* exactly when some field is not a positive integer, and then builds neither
\* Model nor Guide; otherwise it builds both from the same four numbers.
C1_CtorValidates ==
    ctor_pc \in {"built", "raised"} =>
        IF OffendingFields # {}
        THEN /\ ctor_pc = "raised"
             /\ ctor_error # None
             /\ ctor_error.field \in OffendingFields
             /\ ctor_error.value = ctor_args[ctor_error.field]
             /\ self_model = None
             /\ self_guide = None
        ELSE /\ ctor_pc = "built"
             /\ ctor_error = None
             /\ self_feature_dim = ctor_args["feature_dim"].val
             /\ self_model.latent_dim = ctor_args["latent_dim"].val
             /\ self_guide.latent_dim = ctor_args["latent_dim"].val
             /\ NetIn(self_model.x_nn.fc) = ctor_args["latent_dim"].val
             /\ NetOut(self_model.x_nn.fc) = 2 * ctor_args["feature_dim"].val
             /\ NetIn(self_guide.z0_nn.fc) = 1 + ctor_args["feature_dim"].val
             /\ NetOut(self_guide.z1_nn.fc) = 2 * ctor_args["latent_dim"].val
             /\ NetIn(self_guide.t_nn.fc) = ctor_args["feature_dim"].val
             /\ Len(self_model.y0_nn.fc) = ctor_args["num_layers"].val + 1
             /\ Len(self_guide.y_nn) = ctor_args["num_layers"].val
             /\ NetOut(self_guide.y_nn) = ctor_args["hidden_dim"].val
             /\ NetIn(self_guide.y1_nn.fc) = ctor_args["hidden_dim"].val

\* A construction rejected for a non-integer last field after three good ones.
C1_Witness ==
    /\ ctor_pc = "raised"
    /\ ctor_error # None
    /\ ctor_error.field = "num_layers"
    /\ ctor_error.value.type = "float"

(***************************************************************************)
(* CEVAE.fit                                                               *)
(***************************************************************************)

\* Rows of the largest dataset, epochs of the longest run, largest batch_size.
MaxRows == 4
MaxEpochs == 2
MaxBatch == 4

\* Values svi.step returns for one minibatch.
StepLosses == {1, 2}

XShapes ==
    {<<n>> : n \in 0..MaxRows}
        \cup {<<n, f>> : n \in 0..MaxRows, f \in 1..MaxDim}
        \cup {<<n, 1, f>> : n \in 0..MaxRows, f \in 1..MaxDim}

TYShapes ==
    {<< >>} \cup {<<n>> : n \in 0..MaxRows} \cup {<<n, 1>> : n \in 0..MaxRows}

\* shape[:1]
Lead(shape) == SubSeq(shape, 1, IF Len(shape) >= 1 THEN 1 ELSE 0)

\* assert x.dim() == 2 and x.size(-1) == self.feature_dim
AssertX(feature_dim, xs) == Len(xs) = 2 /\ xs[Len(xs)] = feature_dim

\* assert t.shape == x.shape[:1]
AssertT(xs, ts) == ts = Lead(xs)

\* assert y.shape == y.shape[:1]    (x does not occur in it)
AssertY(xs, ys) == ys = Lead(ys)

\* TensorDataset(x, t, y) takes size(0) of each tensor and requires them equal:
\* size(0) of a 0-dimensional tensor is an IndexError, unequal sizes fail the
\* dataset's own size check.
TensorDataset(xs, ts, ys) ==
    IF \E s \in {xs, ts, ys} : Len(s) = 0
    THEN [ok |-> FALSE, error |-> [type |-> "IndexError", line |-> 321], len |-> 0]
    ELSE IF ts[1] # xs[1] \/ ys[1] # xs[1]
    THEN [ok |-> FALSE, error |-> [type |-> "AssertionError", line |-> 321], len |-> 0]
    ELSE [ok |-> TRUE, error |-> None, len |-> xs[1]]

\* len(DataLoader(dataset, batch_size=batch_size, shuffle=True)): the number of
\* minibatches of an epoch, the last one possibly short.
DataLoaderLen(n, bs) == (n + bs - 1) \div bs

\* The rows of minibatch number b (from 1) of an epoch.
BatchRows(n, bs, b) == IF b * bs <= n THEN bs ELSE n - (b - 1) * bs

\* NumSteps without the factor len(dataloader).
NumSteps_epochs_only(epochs, nbatches) == epochs

\* num_steps = num_epochs * len(dataloader)
NumSteps(epochs, nbatches) == epochs * nbatches

\* the size argument of svi.step(x, t, y, size=len(dataset))
StepSize(n, rows) == n

\* AppendLoss as losses = [loss].
AppendLoss_replacing(ls, l) == <<l>>

\* losses.append(loss)
AppendLoss(ls, l) == Append(ls, l)

\* One optimizer step of ClippedAdam: lr is multiplied by lrd once.
OptimStep(o) == [o EXCEPT !.decays = @ + 1]

InitFit ==
    /\ IdleIte
    /\ IdleCtor
    /\ IdleLoss
    /\ IdleDist
    /\ cevae_feature_dim \in 1..MaxDim
    /\ x_shape \in XShapes
    /\ t_shape \in TYShapes
    /\ y_shape \in TYShapes
    /\ num_epochs \in 0..MaxEpochs
    /\ batch_size \in 1..MaxBatch
    /\ fit_pc = "call"
    /\ fit_error = None
    /\ dataset_len = 0 /\ loader_len = 0 /\ num_steps = 0
    /\ optim = None
    /\ epoch = 0 /\ batch = 0 /\ loss = 0
    /\ losses = <<>>
    /\ step_calls = {}
    /\ step_log = <<>>

FitRaise(type, line) ==
    /\ fit_pc' = "raised"
    /\ fit_error' = [type |-> type, line |-> line]

\* lines 317-319: the three assertions, in order
FitAssert ==
    /\ fit_pc = "call"
    /\ IF ~AssertX(cevae_feature_dim, x_shape) THEN FitRaise("AssertionError", 317)
       ELSE IF ~AssertT(x_shape, t_shape) THEN FitRaise("AssertionError", 318)
       ELSE IF ~AssertY(x_shape, y_shape) THEN FitRaise("AssertionError", 319)
       ELSE fit_pc' = "dataset" /\ UNCHANGED fit_error
    /\ UNCHANGED <<cevae_feature_dim, x_shape, t_shape, y_shape, num_epochs, batch_size,
                   dataset_len, loader_len, num_steps, optim, epoch, batch, loss,
                   losses, step_calls, step_log>>

\* lines 321-322: dataset and dataloader
FitDataset ==
    /\ fit_pc = "dataset"
    /\ LET ds == TensorDataset(x_shape, t_shape, y_shape) IN
         IF ~ds.ok
         THEN /\ fit_pc' = "raised"
              /\ fit_error' = ds.error
              /\ UNCHANGED <<dataset_len, loader_len>>
         ELSE /\ fit_pc' = "optim"
              /\ dataset_len' = ds.len
              /\ loader_len' = DataLoaderLen(ds.len, batch_size)
              /\ UNCHANGED fit_error
    /\ UNCHANGED <<cevae_feature_dim, x_shape, t_shape, y_shape, num_epochs, batch_size,
                   num_steps, optim, epoch, batch, loss, losses, step_calls, step_log>>

\* lines 323-328: num_steps, the optimizer (1 / num_steps divides by zero
\* when num_steps is 0), svi and the empty list losses
FitOptim ==
    /\ fit_pc = "optim"
    /\ num_steps' = NumSteps(num_epochs, loader_len)
    /\ IF num_steps' = 0
       THEN FitRaise("ZeroDivisionError", 326) /\ UNCHANGED <<optim, losses>>
       ELSE /\ optim' = [lrd_root |-> num_steps', decays |-> 0]
            /\ losses' = <<>>
            /\ fit_pc' = "epoch"
            /\ UNCHANGED fit_error
    /\ UNCHANGED <<cevae_feature_dim, x_shape, t_shape, y_shape, num_epochs, batch_size,
                   dataset_len, loader_len, epoch, batch, loss, step_calls, step_log>>

\* lines 329-330: the next epoch of range(num_epochs) begins with loss = 0,
\* or the loop is exhausted
FitEpochBegin ==
    /\ fit_pc = "epoch"
    /\ IF epoch < num_epochs
       THEN /\ loss' = 0
            /\ batch' = 0
            /\ step_log' = Append(step_log, <<>>)
            /\ fit_pc' = "batch"
       ELSE /\ fit_pc' = "return"
            /\ UNCHANGED <<loss, batch, step_log>>
    /\ UNCHANGED <<cevae_feature_dim, x_shape, t_shape, y_shape, num_epochs, batch_size,
                   fit_error, dataset_len, loader_len, num_steps, optim, epoch,
                   losses, step_calls>>

\* lines 331-332: loss += svi.step(x, t, y, size=len(dataset)) / len(dataset)
\* for the next minibatch of the dataloader
FitStep ==
    /\ fit_pc = "batch"
    /\ batch < loader_len
    /\ \E l \in StepLosses :
         /\ loss' = loss + l
         /\ step_log' = [step_log EXCEPT ![Len(step_log)] = Append(@, l)]
    /\ step_calls' = step_calls \cup
            {[rows |-> BatchRows(dataset_len, batch_size, batch + 1),
              size |-> StepSize(dataset_len, BatchRows(dataset_len, batch_size, batch + 1))]}
    /\ optim' = OptimStep(optim)
    /\ batch' = batch + 1
    /\ UNCHANGED <<cevae_feature_dim, x_shape, t_shape, y_shape, num_epochs, batch_size,
                   fit_pc, fit_error, dataset_len, loader_len, num_steps, epoch, losses>>

\* lines 333-334: the dataloader is exhausted; log and losses.append(loss)
FitEpochEnd ==
    /\ fit_pc = "batch"
    /\ batch = loader_len
    /\ losses' = AppendLoss(losses, [num |-> loss, den |-> dataset_len])
    /\ epoch' = epoch + 1
    /\ fit_pc' = "epoch"
    /\ UNCHANGED <<cevae_feature_dim, x_shape, t_shape, y_shape, num_epochs, batch_size,
                   fit_error, dataset_len, loader_len, num_steps, optim, batch, loss,
                   step_calls, step_log>>

\* line 335: return losses
FitReturn ==
    /\ fit_pc = "return"
    /\ fit_pc' = "done"
    /\ UNCHANGED <<cevae_feature_dim, x_shape, t_shape, y_shape, num_epochs, batch_size,
                   fit_error, dataset_len, loader_len, num_steps, optim, epoch, batch,
                   loss, losses, step_calls, step_log>>

NextFit ==
    \/ (FitAssert /\ UNCHANGED exceptFit)
    \/ (FitDataset /\ UNCHANGED exceptFit)
    \/ (FitOptim /\ UNCHANGED exceptFit)
    \/ (FitEpochBegin /\ UNCHANGED exceptFit)
    \/ (FitStep /\ UNCHANGED exceptFit)
    \/ (FitEpochEnd /\ UNCHANGED exceptFit)
    \/ (FitReturn /\ UNCHANGED exceptFit)

SpecFit == InitFit /\ [][NextFit]_vars

RECURSIVE SumSeq(_)
SumSeq(q) == IF q = <<>> THEN 0 ELSE q[1] + SumSeq(Tail(q))

\* The precondition of fit: x is 2-D with trailing dimension feature_dim, and
\* t and y are 1-D of x's leading dimension.
FitPre ==
    /\ Len(x_shape) = 2
    /\ x_shape[2] = cevae_feature_dim
    /\ t_shape = <<x_shape[1]>>
    /\ y_shape = <<x_shape[1]>>

\* The exceptions raised by the assertions of fit itself (lines 317-319).
FitAssertionFailed ==
    /\ fit_pc = "raised"
    /\ fit_error.type = "AssertionError"
    /\ fit_error.line \in 317..319

\* C2: whenever the shapes violate the precondition, fit's assertions reject
\* the call: fit never gets past them with such shapes.
C2_AssertionsRejectBadShapes ==
    (fit_pc \notin {"idle", "call"} /\ ~FitPre) => FitAssertionFailed

\* The minibatches of one epoch, counted without the dataloader.
MinibatchesPerEpoch ==
    Cardinality({b \in 1..x_shape[1] : (b - 1) * batch_size < x_shape[1]})

C6_Entries ==
    /\ Len(losses) = epoch
    /\ \A e \in 1..Len(losses) :
          losses[e] = [num |-> SumSeq(step_log[e]), den |-> x_shape[1]]
    /\ fit_pc = "done" => Len(losses) = num_epochs

\* C6 as stated: for inputs meeting the preconditions and num_epochs >= 1, fit
\* does not raise, and returns one entry per epoch, in order, each the epoch's
\* accumulated minibatch loss.
C6_Original ==
    (fit_pc # "idle" /\ FitPre /\ num_epochs >= 1) =>
        (fit_pc # "raised" /\ C6_Entries)

\* C6 amended: the same, for a dataset of at least one row; fit then also
\* keeps running until it returns.
C6_ReturnsOneLossPerEpoch ==
    (fit_pc # "idle" /\ FitPre /\ num_epochs >= 1 /\ x_shape[1] >= 1) =>
        /\ fit_pc # "raised"
        /\ C6_Entries
        /\ fit_pc # "done" => ENABLED NextFit

\* One epoch of one full-batch step over four rows has returned a list of one.
C6_Witness ==
    /\ fit_pc = "done"
    /\ FitPre
    /\ x_shape[1] = 4 /\ batch_size = 4 /\ num_epochs = 1
    /\ Len(losses) = 1

\* The optimizer steps executed so far.
StepsExecuted == SumSeq([e \in 1..Len(step_log) |-> Len(step_log[e])])

\* C10: the optimizer steps executed over the run number num_epochs times the
\* minibatches of an epoch, which is the count the decay factor is sized by,
\* so the decay is applied that many times and amounts to learning_rate_decay
\* in total; every step is called with size = the dataset size.
C10_StepsMatchDecay ==
    /\ \A c \in step_calls : c.size = x_shape[1] /\ c.rows \in 1..batch_size
    /\ fit_pc \in {"epoch", "batch", "return", "done"} =>
          /\ optim.lrd_root = num_epochs * MinibatchesPerEpoch
          /\ optim.decays = StepsExecuted
          /\ optim.decays <= optim.lrd_root
    /\ fit_pc = "done" =>
          /\ StepsExecuted = num_epochs * MinibatchesPerEpoch
          /\ optim.decays = optim.lrd_root

\* A finished run of two epochs whose last minibatch was shorter than the rest.
C10_Witness ==
    /\ fit_pc = "done"
    /\ num_epochs = 2
    /\ \E c \in step_calls : c.rows < batch_size /\ c.rows < c.size
    /\ optim.decays = 4

(***************************************************************************)
(* TraceCausalEffect_ELBO                                                  *)
(***************************************************************************)

\* Log-densities are drawn from -MaxLogProb .. -1.
MaxLogProb == 2

LogProbs == (-MaxLogProb)..(-1)

\* A scalar: its value, and whether it carries a gradient (a tensor attached to
\* the autograd graph) or not (a Python number, a detached value).
Scalar(v, g) == [val |-> v, grad |-> g]

Minus(a, b) == Scalar(a.val - b.val, a.grad \/ b.grad)
Plus(a, b) == Scalar(a.val + b.val, a.grad \/ b.grad)

\* torch_item(x): the value of x as a Python number.
torch_item(x) == Scalar(x.val, FALSE)

\* A sample site of a trace.  Normal sites are reparameterized, Bernoulli ones
\* are not.
Site(observed, lp, reparam, aux) ==
    [type |-> "sample", is_observed |-> observed, log_prob_sum |-> Scalar(lp, TRUE),
     reparam |-> reparam, is_auxiliary |-> aux]

\* A param site: the networks' parameters are recorded in the trace as well.
ParamSite ==
    [type |-> "param", is_observed |-> FALSE, log_prob_sum |-> Scalar(0, FALSE),
     reparam |-> FALSE, is_auxiliary |-> FALSE]

GuideSites == {"t", "y", "z"}
ModelSites == {"z", "x", "t", "y"}

\* The trace of Guide.forward(x, t, y): t and y are observed when given, and
\* marked auxiliary; z is always sampled.
GuideForwardTrace(given_t, given_y, lp) ==
    [n \in GuideSites \cup {"guide$$$params"} |->
        CASE n = "t" -> Site(given_t, lp["t"], FALSE, TRUE)
          [] n = "y" -> Site(given_y, lp["y"], FALSE, TRUE)
          [] n = "z" -> Site(FALSE, lp["z"], TRUE, FALSE)
          [] OTHER   -> ParamSite]

\* The trace of Model.forward(x, t, y): x is always observed, t and y when given.
ModelForwardTrace(given_t, given_y, lp) ==
    [n \in ModelSites \cup {"model$$$params"} |->
        CASE n = "z" -> Site(FALSE, lp["z"], TRUE, FALSE)
          [] n = "x" -> Site(TRUE, lp["x"], TRUE, FALSE)
          [] n = "t" -> Site(given_t, lp["t"], FALSE, FALSE)
          [] n = "y" -> Site(given_y, lp["y"], FALSE, FALSE)
          [] OTHER   -> ParamSite]

RECURSIVE SumOver(_, _)
\* The sum of f[n] over the names n of S.
SumOver(S, f) ==
    IF S = {} THEN 0
    ELSE LET n == CHOOSE m \in S : TRUE IN f[n] + SumOver(S \ {n}, f)

SampleSites(trace) == {n \in DOMAIN trace : trace[n].type = "sample"}

\* Trace_ELBO._differentiable_loss_particle: the standard per-particle loss
\* -ELBO and its surrogate.  The ELBO is the Model's log joint minus the
\* Guide's log-densities; in the surrogate a reparameterized Guide site
\* enters the same way, whereas a Guide site that is not reparameterized
\* enters through a score-function term log_r * log q.
TraceELBO_loss_particle(mtrace, gtrace) ==
    LET logp == SumOver(SampleSites(mtrace), [n \in DOMAIN mtrace |-> mtrace[n].log_prob_sum.val])
        logq == SumOver(SampleSites(gtrace), [n \in DOMAIN gtrace |-> gtrace[n].log_prob_sum.val])
        elbo == logp - logq
        path == {n \in SampleSites(gtrace) : gtrace[n].reparam}
        score == SampleSites(gtrace) \ path
        surrogate_elbo ==
            logp - SumOver(path, [n \in DOMAIN gtrace |-> gtrace[n].log_prob_sum.val])
                 + SumOver(score, [n \in DOMAIN gtrace |-> elbo * gtrace[n].log_prob_sum.val])
    IN [loss |-> Scalar(0 - elbo, FALSE), surrogate_loss |-> Scalar(0 - surrogate_elbo, TRUE)]

\* blocked_names = [name for name, site in guide_trace.nodes.items()
\*                  if site["type"] == "sample" and site["is_observed"]]
BlockedNames(gtrace) ==
    {n \in DOMAIN gtrace : gtrace[n].type = "sample" /\ gtrace[n].is_observed}

\* Trace.copy(): a new Trace object holding the same sites.
TraceCopy(trace) == [same_object |-> FALSE, nodes |-> trace]

\* BlockedGuideTrace as blocked_guide_trace = guide_trace.
BlockedGuideTrace_without_copy(gtrace) == [same_object |-> TRUE, nodes |-> gtrace]

\* blocked_guide_trace = guide_trace.copy()
BlockedGuideTrace(gtrace) == TraceCopy(gtrace)

\* for name in blocked_names: del trace.nodes[name]
DelNodes(nodes, names) == [n \in (DOMAIN nodes) \ names |-> nodes[n]]

\* LossSub with + in place of -.
LossSub_adds(l, log_q) == Plus(l, torch_item(log_q))

\* LossSub without torch_item.
LossSub_keeps_graph(l, log_q) == Minus(l, log_q)

\* loss = loss - torch_item(log_q)
LossSub(l, log_q) == Minus(l, torch_item(log_q))

\* surrogate_loss = surrogate_loss - log_q
SurrogateSub(l, log_q) == Minus(l, log_q)

RECURSIVE AddLogQTerms(_, _, _)
\* The loop of lines 242-245 over the names not yet visited.
AddLogQTerms(pair, names, gtrace) ==
    IF names = {} THEN pair
    ELSE LET name == CHOOSE n \in names : TRUE
             log_q == gtrace[name].log_prob_sum
         IN AddLogQTerms([loss |-> LossSub(pair.loss, log_q),
                          surrogate_loss |-> SurrogateSub(pair.surrogate_loss, log_q)],
                         names \ {name}, gtrace)

InitLoss ==
    /\ IdleIte
    /\ IdleCtor
    /\ IdleFit
    /\ IdleDist
    /\ loss_pc = "call"
    /\ obs_t \in BOOLEAN
    /\ obs_y \in BOOLEAN
    /\ q_lp \in [GuideSites -> LogProbs]
    /\ p_lp \in [ModelSites -> LogProbs]
    /\ model_trace = <<>> /\ guide_trace = <<>> /\ blocked_guide_trace = <<>>
    /\ blocked_names = {}
    /\ particle_loss = None /\ particle_surrogate = None
    /\ diff_loss = None /\ reported_loss = None

\* The Guide, then the Model replayed against it, are run on the minibatch and
\* their traces recorded.
GetTraces ==
    /\ loss_pc = "call"
    /\ guide_trace' = GuideForwardTrace(obs_t, obs_y, q_lp)
    /\ model_trace' = ModelForwardTrace(obs_t, obs_y, p_lp)
    /\ loss_pc' = "traced"
    /\ UNCHANGED <<obs_t, obs_y, q_lp, p_lp, blocked_guide_trace, blocked_names,
                   particle_loss, particle_surrogate, diff_loss, reported_loss>>

\* TraceCausalEffect_ELBO._differentiable_loss_particle(model_trace, guide_trace)
DifferentiableLossParticle ==
    /\ loss_pc = "traced"
    /\ LET names == BlockedNames(guide_trace)
           blocked == BlockedGuideTrace(guide_trace)
           reduced == DelNodes(blocked.nodes, names)
           \* deleting from the very object guide_trace names deletes from it too
           guide_after == IF blocked.same_object THEN reduced ELSE guide_trace
       IN /\ blocked_names' = names
          /\ blocked_guide_trace' = reduced
          /\ guide_trace' = guide_after
          /\ IF \E n \in names : n \notin DOMAIN guide_after
             THEN \* guide_trace.nodes[name] raises KeyError
                  /\ loss_pc' = "raised"
                  /\ UNCHANGED <<particle_loss, particle_surrogate>>
             ELSE LET out == AddLogQTerms(TraceELBO_loss_particle(model_trace, reduced),
                                          names, guide_after)
                  IN /\ particle_loss' = out.loss
                     /\ particle_surrogate' = out.surrogate_loss
                     /\ loss_pc' = "particle"
    /\ UNCHANGED <<obs_t, obs_y, q_lp, p_lp, model_trace, diff_loss, reported_loss>>

\* Trace_ELBO.differentiable_loss with num_particles = 1: the value of the
\* particle's loss, carrying the gradient of the particle's surrogate loss.
DifferentiableLoss ==
    /\ loss_pc = "particle"
    /\ diff_loss' = Plus(particle_loss, Minus(particle_surrogate, torch_item(particle_surrogate)))
    /\ loss_pc' = "summed"
    /\ UNCHANGED <<obs_t, obs_y, q_lp, p_lp, model_trace, guide_trace, blocked_guide_trace,
                   blocked_names, particle_loss, particle_surrogate, reported_loss>>

\* TraceCausalEffect_ELBO.loss: torch_item(self.differentiable_loss(...))
Loss ==
    /\ loss_pc = "summed"
    /\ reported_loss' = torch_item(diff_loss)
    /\ loss_pc' = "reported"
    /\ UNCHANGED <<obs_t, obs_y, q_lp, p_lp, model_trace, guide_trace, blocked_guide_trace,
                   blocked_names, particle_loss, particle_surrogate, diff_loss>>

NextLoss ==
    \/ (GetTraces /\ UNCHANGED exceptLoss)
    \/ (DifferentiableLossParticle /\ UNCHANGED exceptLoss)
    \/ (DifferentiableLoss /\ UNCHANGED exceptLoss)
    \/ (Loss /\ UNCHANGED exceptLoss)

SpecLoss == InitLoss /\ [][NextLoss]_vars

ParticleDone == loss_pc \in {"particle", "summed", "reported"}

\* The Guide sites that were supplied as data.
SuppliedSites == {n \in {"t", "y"} : (n = "t" /\ obs_t) \/ (n = "y" /\ obs_y)}

\* The Guide trace without the supplied sites, built from the drawn densities.
ReducedGuide == DelNodes(GuideForwardTrace(obs_t, obs_y, q_lp), SuppliedSites)

\* C3: the particle's loss is the standard loss of the Model trace and the
\* reduced Guide trace minus the Guide's log-density of each excluded site, and
\* so is its surrogate; on a minibatch (t and y supplied)
\* -loss = ELBO + log q(t|x) + log q(y|t,x), the ELBO being that of z alone.
C3_LossDecomposition ==
    ParticleDone =>
        LET std == TraceELBO_loss_particle(ModelForwardTrace(obs_t, obs_y, p_lp), ReducedGuide)
            log_q == SumOver(SuppliedSites, q_lp)
            elbo == (p_lp["z"] + p_lp["x"] + p_lp["t"] + p_lp["y"]) - q_lp["z"]
        IN /\ particle_loss.val = std.loss.val - log_q
           /\ particle_surrogate.val = std.surrogate_loss.val - log_q
           /\ particle_loss.val + log_q = std.loss.val
           /\ (obs_t /\ obs_y) =>
                 /\ 0 - particle_loss.val = elbo + q_lp["t"] + q_lp["y"]
                 /\ std.loss.val = 0 - elbo

\* A minibatch's particle loss in which all three Guide densities differ.
C3_Witness ==
    /\ loss_pc = "particle"
    /\ obs_t /\ obs_y
    /\ blocked_names = {"t", "y"}
    /\ q_lp["t"] # q_lp["y"]
    /\ particle_loss.val = q_lp["z"] - SumOver(ModelSites, p_lp) - q_lp["t"] - q_lp["y"]

\* C4: on a minibatch the reporting loss is a detached scalar equal in value
\* to the surrogate loss, which carries the gradient; loss() returns the value
\* of the differentiable loss, detached.
C4_ReportingEqualsSurrogate ==
    (obs_t /\ obs_y) =>
        /\ ParticleDone =>
              /\ particle_loss.val = particle_surrogate.val
              /\ ~particle_loss.grad
              /\ particle_surrogate.grad
        /\ loss_pc \in {"summed", "reported"} =>
              /\ diff_loss.val = particle_surrogate.val
              /\ diff_loss.grad
        /\ loss_pc = "reported" =>
              /\ reported_loss.val = diff_loss.val
              /\ reported_loss.val = particle_surrogate.val
              /\ ~reported_loss.grad

\* loss() has returned on a minibatch.
C4_Witness ==
    /\ loss_pc = "reported"
    /\ obs_t /\ obs_y
    /\ reported_loss = torch_item(particle_surrogate)
    /\ reported_loss.val > 0

\* C8: the reduced Guide trace holds exactly the Guide's sites that are not
\* observed sample sites, unchanged; with t and y supplied it holds z but
\* neither t nor y; and the Guide trace passed in still holds every site, t
\* and y with their log-densities.
C8_ReducedTrace ==
    loss_pc \in {"particle", "summed", "reported", "raised"} =>
        LET original == GuideForwardTrace(obs_t, obs_y, q_lp) IN
        /\ DOMAIN blocked_guide_trace =
              {n \in DOMAIN original :
                  ~(original[n].type = "sample" /\ original[n].is_observed)}
        /\ \A n \in DOMAIN blocked_guide_trace : blocked_guide_trace[n] = original[n]
        /\ (obs_t /\ obs_y) =>
              /\ "t" \notin DOMAIN blocked_guide_trace
              /\ "y" \notin DOMAIN blocked_guide_trace
              /\ "z" \in DOMAIN blocked_guide_trace
        /\ DOMAIN guide_trace = DOMAIN original
        /\ \A n \in {"t", "y"} :
              /\ n \in DOMAIN guide_trace
              /\ guide_trace[n].log_prob_sum.val = q_lp[n]
        /\ loss_pc # "raised"

\* The reduced trace of a minibatch, next to the full Guide trace.
C8_Witness ==
    /\ loss_pc = "particle"
    /\ obs_t /\ obs_y
    /\ DOMAIN blocked_guide_trace = {"z", "guide$$$params"}
    /\ {"t", "y", "z"} \subseteq DOMAIN guide_trace
    /\ guide_trace["t"].is_observed /\ guide_trace["y"].is_observed

(***************************************************************************)
(* The twin-head distributions: Model.y_dist, Guide.y_dist, Guide.z_dist   *)
(*                                                                         *)
(* A tensor with one entry per row is a function on its index set.  The    *)
(* networks act on each row separately; the output of network net on the   *)
(* row input v is the term <<net, v>>.                                     *)
(***************************************************************************)

\* Rows of the tensors the distributions are evaluated on.
DistRows == 2

\* Values of a treatment entry (t.bool() is true of every non-zero one), of a
\* draw from a Bernoulli, and of a latent or feature entry.
TValues == {0, 1, 2}
BernoulliSupport == {0, 1}
LatentValues == {0, 1}

\* net(input), row by row
Apply(net, input) == [i \in DOMAIN input |-> <<net, input[i]>>]

\* FullyConnected.forward / BernoulliNet.forward: one logit per row
BernoulliNetForward(net, input) == Apply(net, input)

\* DiagNormalNet.forward: loc is the first half of the output, scale the
\* softplus of the second half, clamped below at 1e-10
DiagNormalNetForward(net, input) ==
    [loc   |-> [i \in DOMAIN input |-> <<"loc", <<net, input[i]>>>>],
     scale |-> [i \in DOMAIN input |-> <<"clamped_softplus", <<net, input[i]>>>>]]

\* t.bool()
Bool(t) == [i \in DOMAIN t |-> t[i] # 0]

\* torch.where(condition, a, b), entry by entry
TorchWhere(condition, a, b) == [i \in DOMAIN condition |-> IF condition[i] THEN a[i] ELSE b[i]]

\* torch.cat([y.unsqueeze(-1), x], dim=-1): each row of x with its y in front
CatYX(y, x) == [i \in DOMAIN y |-> <<y[i], x[i]>>]

\* Model_y_dist with the two heads exchanged in torch.where.
Model_y_dist_swapped(t, z) ==
    [dist |-> "Bernoulli",
     logits |-> TorchWhere(Bool(t), BernoulliNetForward("Model.y0_nn", z),
                                    BernoulliNetForward("Model.y1_nn", z))]

\* Model.y_dist(t, z)
Model_y_dist(t, z) ==
    LET logits0 == BernoulliNetForward("Model.y0_nn", z)
        logits1 == BernoulliNetForward("Model.y1_nn", z)
    IN [dist |-> "Bernoulli", logits |-> TorchWhere(Bool(t), logits1, logits0)]

\* Model.t_dist(z)
Model_t_dist(z) == [dist |-> "Bernoulli", logits |-> BernoulliNetForward("Model.t_nn", z)]

\* Guide.t_dist(x)
Guide_t_dist(x) == [dist |-> "Bernoulli", logits |-> BernoulliNetForward("Guide.t_nn", x)]

\* Guide.y_dist(t, x)
Guide_y_dist(t, x) ==
    LET hidden == Apply("Guide.y_nn", x)
        logits0 == BernoulliNetForward("Guide.y0_nn", hidden)
        logits1 == BernoulliNetForward("Guide.y1_nn", hidden)
    IN [dist |-> "Bernoulli", logits |-> TorchWhere(Bool(t), logits1, logits0)]

\* Guide.z_dist(y, t, x)
Guide_z_dist(y, t, x) ==
    LET y_x == CatYX(y, x)
        out0 == DiagNormalNetForward("Guide.z0_nn", y_x)
        out1 == DiagNormalNetForward("Guide.z1_nn", y_x)
    IN [dist |-> "Normal",
        loc   |-> TorchWhere(Bool(t), out1.loc, out0.loc),
        scale |-> TorchWhere(Bool(t), out1.scale, out0.scale)]

DistFunctions == {"Model.y_dist", "Guide.y_dist", "Guide.z_dist"}

InitDist ==
    /\ IdleIte
    /\ IdleCtor
    /\ IdleFit
    /\ IdleLoss
    /\ dist_pc = {}
    /\ in_t \in [1..DistRows -> TValues]
    /\ in_z \in [1..DistRows -> LatentValues]
    /\ in_x \in [1..DistRows -> LatentValues]
    /\ in_y \in [1..DistRows -> BernoulliSupport]
    /\ model_y_dist = None /\ guide_y_dist = None /\ guide_z_dist = None

CallModelYDist ==
    /\ "idle" \notin dist_pc
    /\ "Model.y_dist" \notin dist_pc
    /\ model_y_dist' = Model_y_dist(in_t, in_z)
    /\ dist_pc' = dist_pc \cup {"Model.y_dist"}
    /\ UNCHANGED <<in_t, in_z, in_x, in_y, guide_y_dist, guide_z_dist>>

CallGuideYDist ==
    /\ "idle" \notin dist_pc
    /\ "Guide.y_dist" \notin dist_pc
    /\ guide_y_dist' = Guide_y_dist(in_t, in_x)
    /\ dist_pc' = dist_pc \cup {"Guide.y_dist"}
    /\ UNCHANGED <<in_t, in_z, in_x, in_y, model_y_dist, guide_z_dist>>

CallGuideZDist ==
    /\ "idle" \notin dist_pc
    /\ "Guide.z_dist" \notin dist_pc
    /\ guide_z_dist' = Guide_z_dist(in_y, in_t, in_x)
    /\ dist_pc' = dist_pc \cup {"Guide.z_dist"}
    /\ UNCHANGED <<in_t, in_z, in_x, in_y, model_y_dist, guide_y_dist>>

NextDist ==
    \/ (CallModelYDist /\ UNCHANGED exceptDist)
    \/ (CallGuideYDist /\ UNCHANGED exceptDist)
    \/ (CallGuideZDist /\ UNCHANGED exceptDist)

SpecDist == InitDist /\ [][NextDist]_vars

\* Which head a row's treatment selects.
SelectedHead(t_i, treated, control) == IF t_i = 0 THEN control ELSE treated

\* C9: in each of the three distributions, the parameters of row i are the
\* output of the treated head on row i when t[i] is non-zero and of the
\* control head when it is zero; the other head's output does not occur.
C9_PerRowHeadSelection ==
    "idle" \notin dist_pc =>
        \A i \in 1..DistRows :
            /\ "Model.y_dist" \in dist_pc =>
                  model_y_dist.logits[i] =
                      <<SelectedHead(in_t[i], "Model.y1_nn", "Model.y0_nn"), in_z[i]>>
            /\ "Guide.y_dist" \in dist_pc =>
                  guide_y_dist.logits[i] =
                      <<SelectedHead(in_t[i], "Guide.y1_nn", "Guide.y0_nn"), <<"Guide.y_nn", in_x[i]>>>>
            /\ "Guide.z_dist" \in dist_pc =>
                  /\ guide_z_dist.loc[i] =
                        <<"loc", <<SelectedHead(in_t[i], "Guide.z1_nn", "Guide.z0_nn"),
                                   <<in_y[i], in_x[i]>>>>>>
                  /\ guide_z_dist.scale[i] =
                        <<"clamped_softplus", <<SelectedHead(in_t[i], "Guide.z1_nn", "Guide.z0_nn"),
                                                <<in_y[i], in_x[i]>>>>>>

\* All three evaluated on a batch whose rows are treated differently.
C9_Witness ==
    /\ dist_pc = DistFunctions
    /\ in_t[1] = 0 /\ in_t[2] # 0
    /\ model_y_dist.logits[1][1] = "Model.y0_nn"
    /\ model_y_dist.logits[2][1] = "Model.y1_nn"
    /\ guide_z_dist.loc[1] # guide_z_dist.loc[2]

(***************************************************************************)
(* CEVAE.ite                                                               *)
(*                                                                         *)
(* Under the plate "num_particles" every sample site holds one entry per   *)
(* cell <<particle, row>>; x is shared by the particles.  The t and z the   *)
(* Guide samples are drawn here; the y the Guide samples, and every draw   *)
(* the Model makes afresh in a replay, is kept as the term                 *)
(* <<"draw", distribution, parameters>>.                                   *)
(***************************************************************************)

\* Values of an entry of the z the Guide samples.
ZDraws == {0, 1, 2}

\* Largest num_samples and largest number of rows of x.
MaxSamples == 2
MaxIteRows == 1

Cells(particles, rows) == (1..particles) \X (1..rows)

\* The features of each cell: those of its row.
XOf(cells) == [c \in cells |-> <<"x", c[2]>>]

\* Model.z_dist(): Normal(0, 1), one event per cell
Model_z_dist(cells) ==
    [dist |-> "Normal", loc |-> [c \in cells |-> 0], scale |-> [c \in cells |-> 1]]

\* Model.x_dist(z)
Model_x_dist(z) ==
    [dist |-> "Normal",
     loc   |-> DiagNormalNetForward("Model.x_nn", z).loc,
     scale |-> DiagNormalNetForward("Model.x_nn", z).scale]

\* A fresh draw from fn, cell by cell.
Draw(fn, cells) ==
    [c \in cells |->
        IF fn.dist = "Bernoulli" THEN <<"draw", "Bernoulli", fn.logits[c]>>
        ELSE <<"draw", "Normal", <<fn.loc[c], fn.scale[c]>>>>]

SampleSite(fn, value, observed, from) ==
    [type |-> "sample", fn |-> fn, value |-> value, is_observed |-> observed, from |-> from]

\* The sites of Guide.forward(x) with t and y not given, the three sample
\* statements returning tv, yv and zv.
GuideForward(x, tv, yv, zv) ==
    [n \in GuideSites |->
        CASE n = "t" -> SampleSite(Guide_t_dist(x), tv, FALSE, "sampled")
          [] n = "y" -> SampleSite(Guide_y_dist(tv, x), yv, FALSE, "sampled")
          [] n = "z" -> SampleSite(Guide_z_dist(yv, tv, x), zv, FALSE, "sampled")]

\* IteHide with nothing hidden.
IteHide_nothing == {}

\* poutine.block(hide=["y", "t"])
IteHide == {"y", "t"}

\* poutine.trace() around poutine.block(hide=...): the block stops the
\* messages of the hidden sites, so the trace records the others only.
TraceUnderBlock(sites, hide) == [n \in (DOMAIN sites) \ hide |-> sites[n]]

\* poutine.do(data=dict(t=torch.tensor(0.))) and (..., 1.)
DoData0 == [t |-> 0]

\* DoData1 with the constant of the first replay.
DoData1_as_first == [t |-> 0]

DoData1 == [t |-> 1]

\* One sample statement of the Model, run by poutine.replay(model, trace)
\* inside poutine.do(data): an intervened site takes the intervention's
\* constant in every cell, whatever else would set it; a site of the trace
\* takes the trace's value; an observed site its observation; any other site
\* is drawn from fn.
ReplayedSite(name, fn, obs, trace, data, cells) ==
    IF name \in DOMAIN data
    THEN SampleSite(fn, [c \in cells |-> data[name]], TRUE, "do")
    ELSE IF obs # None
    THEN SampleSite(fn, obs, TRUE, "observed")
    ELSE IF name \in DOMAIN trace
    THEN SampleSite(fn, trace[name].value, FALSE, "replay")
    ELSE SampleSite(fn, Draw(fn, cells), FALSE, "sampled")

\* Model.forward(x) with t and y not given, under replay and do.
ModelForward(cells, trace, data) ==
    LET x == XOf(cells)
        z == ReplayedSite("z", Model_z_dist(cells), None, trace, data, cells)
        xsite == ReplayedSite("x", Model_x_dist(z.value), x, trace, data, cells)
        t == ReplayedSite("t", Model_t_dist(z.value), None, trace, data, cells)
        y == ReplayedSite("y", Model_y_dist(t.value, z.value), None, trace, data, cells)
    IN [n \in ModelSites |->
          CASE n = "z" -> z [] n = "x" -> xsite [] n = "t" -> t [] n = "y" -> y]

\* (y1 - y0).mean(0): per row, the mean over the particles of the differences
IteMean(y1, y0, particles, rows) ==
    [i \in 1..rows |-> <<"mean", [p \in 1..particles |-> <<"sub", y1[<<p, i>>], y0[<<p, i>>]>>]>>]

IteCells == Cells(num_samples, ite_x_shape[1])

InitIte ==
    /\ IdleCtor
    /\ IdleFit
    /\ IdleLoss
    /\ IdleDist
    /\ ite_pc = "call"
    /\ ite_x_shape \in {<<m>> : m \in 1..MaxIteRows}
                          \cup {<<m, f>> : m \in 1..MaxIteRows, f \in 1..MaxDim}
    /\ num_samples \in 1..MaxSamples
    /\ guide_samples = <<>> /\ tr = <<>> /\ replay0 = <<>> /\ replay1 = <<>>
    /\ ite_out = None

\* lines 353-357: the assertion, then the Guide run on x under the particle
\* plate, traced with y and t hidden
IteGuide ==
    /\ ite_pc = "call"
    /\ IF ~AssertX(cevae_feature_dim, ite_x_shape)
       THEN /\ ite_pc' = "raised"
            /\ UNCHANGED <<guide_samples, tr>>
       ELSE \E tv \in [IteCells -> BernoulliSupport] :
            \E zv \in [IteCells -> ZDraws] :
                LET yv == Draw(Guide_y_dist(tv, XOf(IteCells)), IteCells) IN
                /\ guide_samples' = [t |-> tv, y |-> yv, z |-> zv]
                /\ tr' = TraceUnderBlock(GuideForward(XOf(IteCells), tv, yv, zv), IteHide)
                /\ ite_pc' = "guide"
    /\ UNCHANGED <<ite_x_shape, num_samples, replay0, replay1, ite_out>>

\* lines 358-359: y0 = replay(model, tr.trace)(x) under do(t=0)
IteReplay0 ==
    /\ ite_pc = "guide"
    /\ replay0' = ModelForward(IteCells, tr, DoData0)
    /\ ite_pc' = "replay0"
    /\ UNCHANGED <<ite_x_shape, num_samples, guide_samples, tr, replay1, ite_out>>

\* lines 360-361: y1 = replay(model, tr.trace)(x) under do(t=1)
IteReplay1 ==
    /\ ite_pc = "replay0"
    /\ replay1' = ModelForward(IteCells, tr, DoData1)
    /\ ite_pc' = "replay1"
    /\ UNCHANGED <<ite_x_shape, num_samples, guide_samples, tr, replay0, ite_out>>

\* line 362: return (y1 - y0).mean(0)
IteReturn ==
    /\ ite_pc = "replay1"
    /\ ite_out' = IteMean(replay1["y"].value, replay0["y"].value, num_samples, ite_x_shape[1])
    /\ ite_pc' = "done"
    /\ UNCHANGED <<ite_x_shape, num_samples, guide_samples, tr, replay0, replay1>>

NextIte ==
    \/ (IteGuide /\ UNCHANGED exceptIte)
    \/ (IteReplay0 /\ UNCHANGED exceptIte)
    \/ (IteReplay1 /\ UNCHANGED exceptIte)
    \/ (IteReturn /\ UNCHANGED exceptIte)

SpecIte == InitIte /\ [][NextIte]_vars

Replayed0 == ite_pc \in {"replay0", "replay1", "done"}
Replayed1 == ite_pc \in {"replay1", "done"}

\* C5: both replays of the Model use, in every cell, the z the Guide sampled
\* (taken from the trace, not drawn again), and t is 0 in every cell of the
\* first replay and 1 in every cell of the second, whatever the Guide sampled
\* for t.
C5_SameZForcedT ==
    /\ Replayed0 =>
          /\ replay0["z"].from = "replay"
          /\ replay0["z"].value = guide_samples.z
          /\ DOMAIN replay0["t"].value = IteCells
          /\ \A c \in IteCells : replay0["t"].value[c] = 0
    /\ Replayed1 =>
          /\ replay1["z"].from = "replay"
          /\ replay1["z"].value = guide_samples.z
          /\ replay1["z"].value = replay0["z"].value
          /\ DOMAIN replay1["t"].value = IteCells
          /\ \A c \in IteCells : replay1["t"].value[c] = 1

\* ite has returned for two particles whose z differ, the Guide having sampled
\* t = 1 in a cell that the first replay forced to 0.
C5_Witness ==
    /\ ite_pc = "done"
    /\ num_samples = 2
    /\ guide_samples.z[<<1, 1>>] # guide_samples.z[<<2, 1>>]
    /\ guide_samples.t[<<1, 1>>] = 1
    /\ replay0["t"].value[<<1, 1>>] = 0
    /\ replay0["z"].value[<<2, 1>>] = guide_samples.z[<<2, 1>>]

\* C7: the trace taken from the Guide holds z, with the value sampled, and
\* neither t nor y; in both replays z alone comes from the trace, t from the
\* intervention, and y is drawn by the Model from its own y_dist of the forced
\* t and that z.
C7_OnlyZFromGuide ==
    /\ ite_pc \in {"guide", "replay0", "replay1", "done"} =>
          /\ "z" \in DOMAIN tr
          /\ "t" \notin DOMAIN tr
          /\ "y" \notin DOMAIN tr
          /\ tr["z"].value = guide_samples.z
    /\ Replayed0 =>
          /\ {n \in ModelSites : replay0[n].from = "replay"} = {"z"}
          /\ replay0["t"].from = "do"
          /\ replay0["y"].from = "sampled"
          /\ \A c \in IteCells :
                /\ replay0["y"].fn.logits[c] = <<"Model.y0_nn", guide_samples.z[c]>>
                /\ replay0["y"].value[c] = <<"draw", "Bernoulli", replay0["y"].fn.logits[c]>>
    /\ Replayed1 =>
          /\ {n \in ModelSites : replay1[n].from = "replay"} = {"z"}
          /\ replay1["t"].from = "do"
          /\ replay1["y"].from = "sampled"
          /\ \A c \in IteCells :
                /\ replay1["y"].fn.logits[c] = <<"Model.y1_nn", guide_samples.z[c]>>
                /\ replay1["y"].value[c] = <<"draw", "Bernoulli", replay1["y"].fn.logits[c]>>

\* ite has returned, the Guide having sampled t = 0 in a cell whose t the
\* second replay forced to 1 and whose y the Model drew itself, not from the
\* distribution the Guide drew its y from.
C7_Witness ==
    /\ ite_pc = "done"
    /\ guide_samples.t[<<1, 1>>] = 0
    /\ replay1["t"].value[<<1, 1>>] = 1
    /\ replay1["y"].from = "sampled"
    /\ replay1["y"].value[<<1, 1>>] # guide_samples.y[<<1, 1>>]
    /\ DOMAIN tr = {"z"}

====
